---- MODULE Spec2Model ----
(***************************************************************************)
(* Pipeline orchestration and cost accounting of the prompt builder:       *)
(* runPipeline (lib/services/pipeline), generatePromptWithIteration,       *)
(* the session usage ledger, the Supabase repositories and the Google      *)
(* Sheets cost log.  Every await of runPipeline is the end of one action,  *)
(* so that two invocations in the same process interleave as the event     *)
(* loop lets them.                                                         *)
(***************************************************************************)
EXTENDS Integers, Sequences, FiniteSets, TLC

\* ------------------------------------------------------------------ bounds
MaxIterations == 2
NumRuns == 2
MaxFaults == 2
MaxVersion == 11
MaxTokens == 3

\* ------------------------------------------------------- program constants
Tasks == {1, 2}
RunIds == 1..NumRuns
Assistants == {"asst-1", "asst-2"}
DEFAULT_MODEL == "claude-opus-4-5-20251101"

stepDefinitions ==
  << "Load Account Config", "Generate Prompt", "Determine Version",
     "Create Injection File", "Save Prompt Version", "Log Costs" >>

StepNames == { stepDefinitions[n] : n \in 1..Len(stepDefinitions) }

\* price table, USD per 1,000,000 tokens, held in hundredths so that the
\* cache rates (1.5, 18.75, 0.3, ...) are integers
MODEL_PRICING ==
  [ m \in { "claude-opus-4-5-20251101", "claude-sonnet-4-20250514",
            "claude-3-5-sonnet-20241022", "claude-3-5-haiku-20241022" } |->
      CASE m = "claude-opus-4-5-20251101" ->
             [inputPer1M |-> 1500, outputPer1M |-> 7500,
              cacheReadPer1M |-> 150, cacheWritePer1M |-> 1875]
        [] m = "claude-3-5-haiku-20241022" ->
             [inputPer1M |-> 80, outputPer1M |-> 400,
              cacheReadPer1M |-> 8, cacheWritePer1M |-> 100]
        [] OTHER ->
             [inputPer1M |-> 300, outputPer1M |-> 1500,
              cacheReadPer1M |-> 30, cacheWritePer1M |-> 375] ]

\* usages the completion provider reports, per operation
UsagesOf(operation) ==
  CASE operation = "prompt_generation" ->
         { [inputTokens |-> 100, outputTokens |-> 50,
            cacheReadTokens |-> 0, cacheWriteTokens |-> 0],
           [inputTokens |-> 7, outputTokens |-> 3,
            cacheReadTokens |-> 2, cacheWriteTokens |-> 1] }
    [] operation = "prompt_analysis" ->
         { [inputTokens |-> 100, outputTokens |-> 50,
            cacheReadTokens |-> 0, cacheWriteTokens |-> 0] }
    [] OTHER ->
         { [inputTokens |-> 100, outputTokens |-> 50,
            cacheReadTokens |-> 0, cacheWriteTokens |-> 0] }

\* messages of the errors the collaborators throw
ProviderErrors == { "provider error" }

VARIABLES
  sessionUsage,     \* usage.ts: module-level token totals
  sessionCosts,     \* usage.ts: module-level list of cost entries
  pc,               \* per task: the await runPipeline is suspended at
  local,            \* per task: the locals of its runPipeline invocation
  result,           \* per task: the PipelineResult returned (<<>> before)
  pipeline_runs,    \* table pipeline_runs, by run id
  pipeline_steps,   \* table pipeline_steps, by run id and step name
  cost_entries,     \* table cost_entries, in insertion order
  prompt_versions,  \* table prompt_versions, in insertion order
  sheet,            \* the cost spreadsheet: cost rows, version rows, summary
  runsStarted,      \* number of runPipeline invocations so far
  faults,           \* number of collaborator failures so far
  trace,            \* per task: what the invocation did (calls, failures)
  mayFail,          \* the kinds of collaborator call that can throw
  nextSeen,         \* results of the version functions applied to the table
  costSeen          \* a usage and a model, and calculateCost applied to them

vars == << sessionUsage, sessionCosts, pc, local, result, pipeline_runs,
           pipeline_steps, cost_entries, prompt_versions, sheet,
           runsStarted, faults, trace, mayFail, nextSeen, costSeen >>

\* ----------------------------------------------------------- small helpers
RECURSIVE SumOver(_, _)
SumOver(s, field) ==
  IF s = << >> THEN 0 ELSE s[1][field] + SumOver(Tail(s), field)

RECURSIVE SelectSeqBy(_, _)
SelectSeqBy(s, keep) ==
  IF s = << >> THEN << >>
  ELSE IF s[1] \in keep THEN << s[1] >> \o SelectSeqBy(Tail(s), keep)
       ELSE SelectSeqBy(Tail(s), keep)

Range(s) == { s[n] : n \in 1..Len(s) }

Max(S) == CHOOSE x \in S : \A y \in S : y <= x

\* ------------------------------------------------------------ JS idioms
\* a || b on numbers: 0 (and undefined, held as 0) is falsy
OrElse(a, b) == IF a = 0 THEN b ELSE a

\* T | null and optional fields are sequences of length 0 or 1
None == << >>
Some(x) == << x >>

\* --------------------------------------------------------- cost calculator
\* costs are in 1e-8 USD: (tokens / 1,000,000) * perMillion, perMillion in
\* hundredths of a dollar
calculateCostWithPricing(usage, pricing) ==
  LET inputCost == usage.inputTokens * pricing.inputPer1M
      outputCost == usage.outputTokens * pricing.outputPer1M
      readCost == IF usage.cacheReadTokens # 0 /\ pricing.cacheReadPer1M # 0
                  THEN usage.cacheReadTokens * pricing.cacheReadPer1M ELSE 0
      writeCost == IF usage.cacheWriteTokens # 0 /\ pricing.cacheWritePer1M # 0
                   THEN usage.cacheWriteTokens * pricing.cacheWritePer1M ELSE 0
      cacheCost == readCost + writeCost
  IN [inputCost |-> inputCost, outputCost |-> outputCost,
      cacheCost |-> IF cacheCost > 0 THEN Some(cacheCost) ELSE None,
      totalCostUsd |-> inputCost + outputCost + cacheCost]

\* a fallback to the cheapest model's rates
calculateCost_CheapestFallback(usage, model) ==
  IF model \notin DOMAIN MODEL_PRICING
  THEN calculateCostWithPricing(usage, MODEL_PRICING["claude-3-5-haiku-20241022"])
  ELSE calculateCostWithPricing(usage, MODEL_PRICING[model])

calculateCost(usage, model) ==
  IF model \notin DOMAIN MODEL_PRICING
  THEN calculateCostWithPricing(usage, MODEL_PRICING["claude-opus-4-5-20251101"])
  ELSE calculateCostWithPricing(usage, MODEL_PRICING[model])

createCostEntry(params) ==
  [id |-> params.id,
   assistantId |-> params.assistantId,
   operation |-> params.operation,
   model |-> params.model,
   inputTokens |-> params.usage.inputTokens,
   outputTokens |-> params.usage.outputTokens,
   costUsd |-> calculateCost(params.usage, params.model).totalCostUsd]

\* ---------------------------------------------------- session usage ledger
ZeroUsage ==
  [inputTokens |-> 0, outputTokens |-> 0,
   cacheReadTokens |-> 0, cacheWriteTokens |-> 0]

\* totals that leave the output tokens out
trackUsage_InputOnly(su, usage) ==
  [su EXCEPT !.inputTokens = @ + usage.inputTokens]

trackUsage(su, usage) ==
  [inputTokens |-> su.inputTokens + usage.inputTokens,
   outputTokens |-> su.outputTokens + usage.outputTokens,
   cacheReadTokens |-> OrElse(su.cacheReadTokens, 0)
                         + OrElse(usage.cacheReadTokens, 0),
   cacheWriteTokens |-> OrElse(su.cacheWriteTokens, 0)
                          + OrElse(usage.cacheWriteTokens, 0)]

\* logCost: the entry is pushed on the list and its usage added to the totals
logCost(params) ==
  /\ sessionCosts' = Append(sessionCosts,
                            createCostEntry(
                              [id |-> params.id,
                               assistantId |-> params.assistantId,
                               operation |-> params.operation,
                               model |-> DEFAULT_MODEL,
                               usage |-> params.usage]))
  /\ sessionUsage' = trackUsage(sessionUsage, params.usage)

getSessionCosts == sessionCosts

getSessionTotalCost == SumOver(sessionCosts, "costUsd")

\* a reset that leaves the cache totals as they are
resetSession_KeepsCache ==
  /\ sessionUsage' = [sessionUsage EXCEPT !.inputTokens = 0, !.outputTokens = 0]
  /\ sessionCosts' = << >>

resetSession ==
  /\ sessionUsage' = ZeroUsage
  /\ sessionCosts' = << >>

\* ------------------------------------------------------- version strings
Digit(d) == <<"0", "1", "2", "3", "4", "5", "6", "7", "8", "9">>[d + 1]

DigitValue(c) == CHOOSE d \in 0..9 : Digit(d) = c

IsDigit(c) == \E d \in 0..9 : Digit(d) = c

\* Number.prototype.toString for a non-negative integer
RECURSIVE NumberToString(_)
NumberToString(n) == IF n < 10 THEN << Digit(n) >>
               ELSE NumberToString(n \div 10) \o << Digit(n % 10) >>

\* `v${versionNumber}`
FormatVersion(versionNumber) == << "v" >> \o NumberToString(versionNumber)

\* String.prototype.replace(pattern, "") with a one-character string
\* pattern: the first occurrence only
RECURSIVE ReplaceFirst(_, _)
ReplaceFirst(str, c) ==
  IF str = << >> THEN << >>
  ELSE IF str[1] = c THEN Tail(str)
       ELSE << str[1] >> \o ReplaceFirst(Tail(str), c)

\* parseInt(str, 10) on unsigned input: the leading digits, NaN (-1) if none
RECURSIVE ParseDigits(_, _)
ParseDigits(str, acc) ==
  IF str = << >> \/ ~IsDigit(str[1]) THEN acc
  ELSE ParseDigits(Tail(str), 10 * acc + DigitValue(str[1]))

NaN == -1

parseInt(str) ==
  IF str = << >> \/ ~IsDigit(str[1]) THEN NaN ELSE ParseDigits(str, 0)

\* version-tracker.ts getNextVersion(existingVersions: string[])
getNextVersion(existingVersions) ==
  IF Len(existingVersions) = 0 THEN FormatVersion(1)
  ELSE LET versionNumbers ==
             { parseInt(ReplaceFirst(existingVersions[n], "v")) :
                 n \in 1..Len(existingVersions) } \ { NaN }
           maxVersion == Max(versionNumbers \cup {0})
       IN FormatVersion(maxVersion + 1)

\* ------------------------------------------------- prompt_versions queries
RowsOf(table, assistant_id) ==
  SelectSeqBy(table, { row \in Range(table) : row.assistant_id = assistant_id })

\* the query without its WHERE clause
get_next_version_number_AnyAssistant(table, p_assistant_id) ==
  LET nums == { row.version_number : row \in Range(table) }
  IN (IF nums = {} THEN 0 ELSE Max(nums)) + 1

\* SQL: SELECT COALESCE(MAX(version_number), 0) + 1 ... WHERE assistant_id
get_next_version_number(table, p_assistant_id) ==
  LET nums == { row.version_number : row \in Range(RowsOf(table, p_assistant_id)) }
  IN (IF nums = {} THEN 0 ELSE Max(nums)) + 1

\* .order("version_number", desc).limit(1).single(): the row or null
getLatestPromptVersion(table, assistantId) ==
  LET rows == Range(RowsOf(table, assistantId))
  IN IF rows = {} THEN None
     ELSE Some(CHOOSE row \in rows :
                 \A other \in rows : other.version_number <= row.version_number)

\* a lookup that ignores the table
getNextVersionNumber_Constant(table, assistantId, rpcError) == 1

\* getNextVersionNumber: the rpc, or on its error the manual query
getNextVersionNumber(table, assistantId, rpcError) ==
  IF rpcError
  THEN LET latest == getLatestPromptVersion(table, assistantId)
       IN OrElse(IF latest = None THEN 0 ELSE latest[1].version_number, 0) + 1
  ELSE get_next_version_number(table, assistantId)

\* a table without the constraint
ViolatesUnique_Never(table, row) == FALSE

\* UNIQUE(assistant_id, version)
ViolatesUnique(table, row) ==
  \E old \in Range(table) :
    old.assistant_id = row.assistant_id /\ old.version = row.version


\* ------------------------------------------------ completion provider stub
\* the text a call returns names the call and its arguments, so that the
\* flow of prompts and feedback through the loop can be read off the result
generatePromptFromBriefing == << "generated" >>
analyzePrompt(promptContent) == << "analysis", promptContent >>
improvePrompt(promptContent, analysisFeedback) ==
  << "improved", promptContent, analysisFeedback >>

\* ------------------------------------------------------------- run state
Configs ==
  [maxIterations : 0..MaxIterations,
   enableCostTracking : BOOLEAN,
   enableSupabase : BOOLEAN]

DEFAULT_CONFIG ==
  [maxIterations |-> 1, enableCostTracking |-> TRUE, enableSupabase |-> TRUE]

NoLocal ==
  [runId |-> 0,
   pipelineConfig |-> DEFAULT_CONFIG,
   assistantId |-> "asst-1",
   steps |-> << >>,
   supabaseContext |-> None,
   maxIterations |-> 0,
   i |-> 0,
   initialPrompt |-> None,
   currentPrompt |-> None,
   analysis |-> None,
   iterations |-> << >>,
   generatedPrompt |-> None,
   version |-> FormatVersion(1),
   versionNumber |-> 1,
   injectionFile |-> None]

NoTrace == [log |-> << >>, failures |-> {}, completions |-> << >>]

NoSheet ==
  [exists |-> FALSE, costRows |-> << >>, versionRows |-> << >>,
   summary |-> None]

NoSeen == [rpc |-> None, manual |-> None, tracker |-> None]

NoCost == [usage |-> ZeroUsage, model |-> DEFAULT_MODEL, cost |-> None]

FailureKinds ==
  { "mirror", "context", "completion", "costEntry", "versionLookup",
    "injection", "promptVersion", "sheets", "completeRun", "failRun" }

\* the process after the module is loaded, no run started
Process ==
  /\ sessionUsage = ZeroUsage
  /\ sessionCosts = << >>
  /\ pc = [t \in Tasks |-> "idle"]
  /\ local = [t \in Tasks |-> NoLocal]
  /\ result = [t \in Tasks |-> None]
  /\ pipeline_runs = [id \in RunIds |-> None]
  /\ pipeline_steps = [id \in RunIds |-> None]
  /\ cost_entries = << >>
  /\ sheet = NoSheet
  /\ runsStarted = 0
  /\ faults = 0
  /\ trace = [t \in Tasks |-> NoTrace]
  /\ nextSeen = NoSeen

\* a fresh database as well
Loaded ==
  /\ Process
  /\ prompt_versions = << >>
  /\ costSeen = NoCost

\* every collaborator can fail
Init ==
  /\ Loaded
  /\ mayFail = FailureKinds

\* a throw of kind `kind` is possible
May(throws, kind) == throws => kind \in mayFail

B(flag) == IF flag THEN 1 ELSE 0

Ctx(t) == local[t].supabaseContext

\* the test `supabaseContext && pipelineConfig.enableSupabase`
HasCtx(t) == Ctx(t) # None /\ local[t].pipelineConfig.enableSupabase

\* ------------------------------------------------------------- logStep
\* an entry put at the front of the history
PushStep_Prepend(steps, name, status, error) ==
  << [name |-> name, status |-> status, error |-> error] >> \o steps

\* steps.push({name, status, timestamp, error})
PushStep(steps, name, status, error) ==
  Append(steps, [name |-> name, status |-> status, error |-> error])

\* a logStep that records the failure of its durable write in the history
logStep_Propagating(steps, name, status, error, throws) ==
  IF throws
  THEN PushStep(steps, name, "failed", "Failed to update Supabase step")
  ELSE PushStep(steps, name, status, error)

\* the step history after logStep: the entry is pushed before the durable
\* write is tried, and a throw of that write (`throws`) is caught inside
logStep(steps, name, status, error, throws) ==
  PushStep(steps, name, status, error)

\* the repository call logStep makes for a status, if any
StepCall(t, status, error) ==
  IF ~HasCtx(t) THEN << >>
  ELSE IF status = "running" THEN << "startPipelineStep" >>
  ELSE IF status = "completed" THEN << "completePipelineStep" >>
  ELSE IF status = "failed" /\ error # "" THEN << "failPipelineStep" >>
  ELSE << >>

\* the pipeline_steps table after logStep; a throwing update is swallowed
Mirror(table, t, name, status, error, throws) ==
  IF StepCall(t, status, error) # << >> /\ ~throws
  THEN [table EXCEPT ![Ctx(t)[1].pipelineRun] =
          Some([@[1] EXCEPT ![name] = status])]
  ELSE table

\* a step update can only throw when logStep makes one
MirrorGuard(t, throws) == throws => (HasCtx(t) /\ "mirror" \in mayFail)

\* ----------------------------------------------------- createFailedResult
\* a failure result that drops the message of the error
FailedResult_NoError(steps, error, costs) ==
  [status |-> "failed", error |-> "", generatedPrompt |-> None,
   injectionFile |-> None, costEntries |-> costs, steps |-> steps]

\* a failure result that drops the cost entries
FailedResult_NoCosts(steps, error, costs) ==
  [status |-> "failed", error |-> error, generatedPrompt |-> None,
   injectionFile |-> None, costEntries |-> << >>, steps |-> steps]

FailedResult(steps, error, costs) ==
  [status |-> "failed", error |-> error, generatedPrompt |-> None,
   injectionFile |-> None, costEntries |-> costs, steps |-> steps]

\* a fail update that leaves the message out
failPipelineRun_NoMessage(table, id, errorMessage) ==
  [table EXCEPT ![id] =
     Some([status |-> "failed", error_message |-> "",
           duration_ms |-> TRUE, updates |-> @[1].updates + 1])]

failPipelineRun(table, id, errorMessage) ==
  [table EXCEPT ![id] =
     Some([status |-> "failed", error_message |-> errorMessage,
           duration_ms |-> TRUE, updates |-> @[1].updates + 1])]

completePipelineRun(table, id) ==
  [table EXCEPT ![id] =
     Some([status |-> "completed", error_message |-> @[1].error_message,
           duration_ms |-> TRUE, updates |-> @[1].updates + 1])]

\* a failure result after which the run goes on with the next step
createFailedResult_Continues(t, steps, error, costs, throws) ==
  /\ throws => Ctx(t) # None
  /\ May(throws, "failRun")
  /\ pipeline_runs' =
       IF Ctx(t) # None /\ ~throws
       THEN failPipelineRun(pipeline_runs, Ctx(t)[1].pipelineRun, error)
       ELSE pipeline_runs
  /\ result' = [result EXCEPT ![t] = Some(FailedResult(steps, error, costs))]
  /\ pc' = [pc EXCEPT ![t] = "generate"]

\* createFailedResult: mark the run failed (a throw is swallowed) and return
createFailedResult(t, steps, error, costs, throws) ==
  /\ throws => Ctx(t) # None
  /\ May(throws, "failRun")
  /\ pipeline_runs' =
       IF Ctx(t) # None /\ ~throws
       THEN failPipelineRun(pipeline_runs, Ctx(t)[1].pipelineRun, error)
       ELSE pipeline_runs
  /\ result' = [result EXCEPT ![t] = Some(FailedResult(steps, error, costs))]
  /\ pc' = [pc EXCEPT ![t] = "done"]

FailCall(t) == IF Ctx(t) # None THEN << "failPipelineRun" >> ELSE << >>

Traced(t, calls, failed, completions) ==
  trace' = [trace EXCEPT ![t] =
              [log |-> @.log \o calls, failures |-> @.failures \cup failed,
               completions |-> @.completions \o completions]]

Tag(flag, name) == IF flag THEN { name } ELSE {}

\* a catch block that reports the step as completed
StepStatus_AlwaysCompleted(failed) == "completed"

\* try { ...; logStep(name, "completed") } catch { logStep(name, "failed", ...) }
StepStatus(failed) == IF failed THEN "failed" ELSE "completed"

\* ------------------------------------------------------ runPipeline: entry
\* const steps = []; supabaseContext = null; resetSession(); ids
Enter(t, configs) ==
  /\ pc[t] \in { "idle", "done" }
  /\ runsStarted < NumRuns
  /\ \E config \in configs, assistantId \in Assistants :
       local' = [local EXCEPT ![t] =
                   [NoLocal EXCEPT !.runId = runsStarted + 1,
                                   !.pipelineConfig = config,
                                   !.assistantId = assistantId]]
  /\ resetSession
  /\ result' = [result EXCEPT ![t] = None]
  /\ runsStarted' = runsStarted + 1
  /\ trace' = [trace EXCEPT ![t] = [NoTrace EXCEPT !.log = << "resetSession" >>]]
  /\ pc' = [pc EXCEPT ![t] = "init"]
  /\ UNCHANGED << pipeline_runs, pipeline_steps, cost_entries,
                  prompt_versions, sheet, faults, mayFail, nextSeen, costSeen >>

\* one invocation of runPipeline, with any configuration
StartOnce(t) ==
  /\ t = 1
  /\ pc[t] = "idle"
  /\ Enter(t, Configs)

\* the webhook route calls runPipeline(briefingPayload): DEFAULT_CONFIG.
\* A request handled after the previous one has returned
StartSeq(t) ==
  /\ t = 1
  /\ Enter(t, { DEFAULT_CONFIG })

\* runs started while another is suspended at an await
StartConc(t) ==
  /\ pc[t] = "idle"
  /\ Enter(t, { DEFAULT_CONFIG })

\* --------------------------------------------- initializeSupabaseContext
InitCalls ==
  << "getOrCreateAccount", "getOrCreateAssistant", "createPipelineRun",
     "createPipelineSteps" >>

\* a context that is kept once the PipelineRun row has been created
initializeSupabaseContext_Partial(id, assistantId, outcome) ==
  IF outcome = 0 \/ outcome > 3
  THEN Some([pipelineRun |-> id, assistant |-> assistantId])
  ELSE None

\* what the try block of step 0 leaves in supabaseContext: the value
\* initializeSupabaseContext returned, or null when one of its calls threw
initializeSupabaseContext(id, assistantId, outcome) ==
  IF outcome = 0
  THEN Some([pipelineRun |-> id, assistant |-> assistantId])
  ELSE None

\* outcome 0: all four calls return; outcome n: call n throws
InitContext(t) ==
  /\ pc[t] = "init"
  /\ \E outcome \in 0..Len(InitCalls) :
       LET id == local[t].runId
           enabled == local[t].pipelineConfig.enableSupabase
           made == IF ~enabled THEN 0
                   ELSE IF outcome = 0 THEN Len(InitCalls) ELSE outcome
       IN /\ (~enabled) => outcome = 0
          /\ May(outcome # 0, "context")
          /\ faults + B(outcome # 0) <= MaxFaults
          /\ faults' = faults + B(outcome # 0)
          /\ pipeline_runs' =
               IF enabled /\ (outcome = 0 \/ outcome > 3)
               THEN [pipeline_runs EXCEPT ![id] =
                       Some([status |-> "running", error_message |-> "",
                             duration_ms |-> FALSE, updates |-> 0])]
               ELSE pipeline_runs
          /\ pipeline_steps' =
               IF enabled /\ outcome = 0
               THEN [pipeline_steps EXCEPT ![id] =
                       Some([name \in StepNames |-> "pending"])]
               ELSE pipeline_steps
          /\ local' = [local EXCEPT ![t].supabaseContext =
                         IF enabled
                         THEN initializeSupabaseContext(id, local[t].assistantId,
                                                        outcome)
                         ELSE None]
          /\ Traced(t, SubSeq(InitCalls, 1, made), Tag(outcome # 0, "context"),
                    << >>)
  /\ pc' = [pc EXCEPT ![t] = "load"]
  /\ UNCHANGED << sessionUsage, sessionCosts, result, cost_entries,
                  prompt_versions, sheet, runsStarted, mayFail, nextSeen, costSeen >>

\* ------------------------------------------- step 1: Load Account Config
LoadAccountConfig(t) ==
  /\ pc[t] = "load"
  /\ \E outcome \in { "ok", "Account not found",
                      "ANTHROPIC_API_KEY environment variable not set" },
        m1, m2, rf \in BOOLEAN :
       LET name == "Load Account Config"
           failed == outcome # "ok"
           error == IF failed THEN outcome ELSE ""
           status == StepStatus(failed)
           steps1 == logStep(local[t].steps, name, "running", "", m1)
           steps2 == logStep(steps1, name, status, error, m2)
           table1 == Mirror(pipeline_steps, t, name, "running", "", m1)
           table2 == Mirror(table1, t, name, status, error, m2)
           used == B(m1) + B(m2) + B(rf)
       IN /\ MirrorGuard(t, m1) /\ MirrorGuard(t, m2)
          /\ rf => failed
          /\ faults + used <= MaxFaults
          /\ faults' = faults + used
          /\ pipeline_steps' = table2
          /\ local' = [local EXCEPT ![t].steps = steps2]
          /\ IF failed
             THEN createFailedResult(t, steps2, error, getSessionCosts, rf)
             ELSE /\ pc' = [pc EXCEPT ![t] = "generate"]
                  /\ UNCHANGED << pipeline_runs, result >>
          /\ Traced(t,
               StepCall(t, "running", "") \o << "loadAccountConfig" >>
                 \o (IF outcome = "Account not found" THEN << >>
                     ELSE << "validateApiKeyConfigured" >>)
                 \o StepCall(t, status, error)
                 \o (IF failed THEN FailCall(t) ELSE << >>),
               Tag(m1 \/ m2, "mirror") \cup Tag(rf, "failRun")
                 \cup Tag(outcome = "Account not found", "account")
                 \cup Tag(failed /\ outcome # "Account not found", "apiKey"),
               << >>)
  /\ UNCHANGED << sessionUsage, sessionCosts, cost_entries, prompt_versions,
                  sheet, runsStarted, mayFail, nextSeen, costSeen >>


\* ------------------------------------------------ step 2: Generate Prompt
Completion(operation, promptContent, analysisFeedback, ok, usage) ==
  [operation |-> operation, promptContent |-> promptContent,
   analysisFeedback |-> analysisFeedback, ok |-> ok,
   usage |-> IF ok THEN usage ELSE ZeroUsage]

CostParams(t, operation, usage) ==
  [id |-> << local[t].runId, Len(trace[t].completions) + 1 >>,
   assistantId |-> local[t].assistantId,
   operation |-> operation,
   usage |-> usage]

\* the parameter default of generatePromptWithIteration
EffectiveIterations(maxIterations) == OrElse(maxIterations, 1)

\* a loop test that is off by one
LoopContinues_Inclusive(i, maxIterations) == i <= maxIterations

\* the for loop's test, after a body or before the first
LoopContinues(i, maxIterations) == i < maxIterations

\* the GeneratedPrompt that generatePromptWithIteration builds
GeneratedPrompt(loc) ==
  [content |-> loc.currentPrompt[1],
   simpleIterations |-> loc.iterations,
   iterations |-> None,
   metadata |-> [iterations |-> loc.maxIterations]]

\* generatePromptWithIteration returns; logStep("Generate Prompt",
\* "completed"); the cost save follows when there is a context
ReturnPrompt(t, loc, table, m2) ==
  /\ MirrorGuard(t, m2)
  /\ local' = [local EXCEPT ![t] =
       [loc EXCEPT !.generatedPrompt = Some(GeneratedPrompt(loc)),
                   !.steps = logStep(loc.steps, "Generate Prompt",
                                     "completed", "", m2)]]
  /\ pipeline_steps' = Mirror(table, t, "Generate Prompt", "completed", "", m2)
  /\ pc' = [pc EXCEPT ![t] = IF HasCtx(t) THEN "saveCosts" ELSE "version"]
  /\ UNCHANGED << pipeline_runs, result >>

\* a throw that leaves runPipeline as a rejected promise: no result
Thrown_Escapes(t, steps, error, rf, calls, tags, completion) ==
  /\ local' = [local EXCEPT ![t].steps = steps]
  /\ pc' = [pc EXCEPT ![t] = "thrown"]
  /\ UNCHANGED << sessionUsage, sessionCosts, pipeline_runs, result >>
  /\ Traced(t, calls, tags \cup { "completion" }, << completion >>)

\* a completion call throws: the outer catch of runPipeline
Thrown(t, steps, error, rf, calls, tags, completion) ==
  /\ local' = [local EXCEPT ![t].steps = steps]
  /\ createFailedResult(t, steps, error, getSessionCosts, rf)
  /\ UNCHANGED << sessionUsage, sessionCosts >>
  /\ Traced(t, calls \o FailCall(t),
            tags \cup { "completion" } \cup Tag(rf, "failRun"),
            << completion >>)

\* logStep("Generate Prompt", "running"); generateInitialPrompt
GenerateInitialPrompt(t) ==
  /\ pc[t] = "generate"
  /\ \E ok, m1, m2, rf \in BOOLEAN,
        usage \in UsagesOf("prompt_generation"),
        error \in ProviderErrors :
       LET name == "Generate Prompt"
           steps1 == logStep(local[t].steps, name, "running", "", m1)
           table1 == Mirror(pipeline_steps, t, name, "running", "", m1)
           maxIterations == EffectiveIterations(local[t].pipelineConfig.maxIterations)
           text == generatePromptFromBriefing
           loc == [local[t] EXCEPT !.steps = steps1,
                                   !.maxIterations = maxIterations,
                                   !.i = 0,
                                   !.initialPrompt = Some(text),
                                   !.currentPrompt = Some(text)]
           more == LoopContinues(0, maxIterations)
           used == B(~ok) + B(m1) + B(m2) + B(rf)
           calls == StepCall(t, "running", "") \o << "generate" >>
           call == Completion("prompt_generation", None, None, ok, usage)
       IN /\ MirrorGuard(t, m1)
          /\ May(~ok, "completion")
          /\ m2 => (ok /\ ~more)
          /\ rf => ~ok
          /\ faults + used <= MaxFaults
          /\ faults' = faults + used
          /\ IF ok
             THEN /\ logCost(CostParams(t, "prompt_generation", usage))
                  /\ IF more
                     THEN /\ local' = [local EXCEPT ![t] = loc]
                          /\ pipeline_steps' = table1
                          /\ pc' = [pc EXCEPT ![t] = "analyze"]
                          /\ UNCHANGED << pipeline_runs, result >>
                     ELSE ReturnPrompt(t, loc, table1, m2)
                  /\ Traced(t,
                       calls \o (IF more THEN << >>
                                 ELSE StepCall(t, "completed", "")),
                       Tag(m1 \/ m2, "mirror"), << call >>)
             ELSE /\ pipeline_steps' = table1
                  /\ Thrown(t, steps1, error, rf, calls, Tag(m1, "mirror"), call)
  /\ UNCHANGED << cost_entries, prompt_versions, sheet, runsStarted, mayFail, nextSeen, costSeen >>

\* analyzeGeneratedPrompt on currentPrompt
AnalyzeGeneratedPrompt(t) ==
  /\ pc[t] = "analyze"
  /\ \E ok, rf \in BOOLEAN,
        usage \in UsagesOf("prompt_analysis"),
        error \in ProviderErrors :
       LET promptContent == local[t].currentPrompt[1]
           call == Completion("prompt_analysis", Some(promptContent), None, ok, usage)
           used == B(~ok) + B(rf)
       IN /\ rf => ~ok
          /\ May(~ok, "completion")
          /\ faults + used <= MaxFaults
          /\ faults' = faults + used
          /\ IF ok
             THEN /\ logCost(CostParams(t, "prompt_analysis", usage))
                  /\ local' = [local EXCEPT ![t].analysis =
                                 Some(analyzePrompt(promptContent))]
                  /\ pc' = [pc EXCEPT ![t] = "improve"]
                  /\ UNCHANGED << pipeline_runs, result >>
                  /\ Traced(t, << "analyze" >>, {}, << call >>)
             ELSE Thrown(t, local[t].steps, error, rf, << "analyze" >>, {}, call)
  /\ UNCHANGED << pipeline_steps, cost_entries, prompt_versions, sheet,
                  runsStarted, mayFail, nextSeen, costSeen >>

\* a record with the feedback and the snapshot in each other's place
IterationRecord_Swapped(i, analysis, improvedPrompt) ==
  [iterationNumber |-> i + 1, feedback |-> improvedPrompt,
   promptSnapshot |-> analysis]

\* one record of the iterations list
IterationRecord(i, analysis, improvedPrompt) ==
  [iterationNumber |-> i + 1, feedback |-> analysis,
   promptSnapshot |-> improvedPrompt]

\* improveGeneratedPrompt, the iteration record, the loop test
ImproveGeneratedPrompt(t) ==
  /\ pc[t] = "improve"
  /\ \E ok, m2, rf \in BOOLEAN,
        usage \in UsagesOf("prompt_improvement"),
        error \in ProviderErrors :
       LET promptContent == local[t].currentPrompt[1]
           analysis == local[t].analysis[1]
           improvedPrompt == improvePrompt(promptContent, analysis)
           i == local[t].i
           loc == [local[t] EXCEPT
                     !.iterations = Append(@, IterationRecord(i, analysis,
                                                              improvedPrompt)),
                     !.currentPrompt = Some(improvedPrompt),
                     !.i = i + 1]
           more == LoopContinues(i + 1, local[t].maxIterations)
           call == Completion("prompt_improvement", Some(promptContent),
                              Some(analysis), ok, usage)
           used == B(~ok) + B(m2) + B(rf)
       IN /\ m2 => (ok /\ ~more)
          /\ May(~ok, "completion")
          /\ rf => ~ok
          /\ faults + used <= MaxFaults
          /\ faults' = faults + used
          /\ IF ok
             THEN /\ logCost(CostParams(t, "prompt_improvement", usage))
                  /\ IF more
                     THEN /\ local' = [local EXCEPT ![t] = loc]
                          /\ pc' = [pc EXCEPT ![t] = "analyze"]
                          /\ UNCHANGED << pipeline_steps, pipeline_runs, result >>
                     ELSE ReturnPrompt(t, loc, pipeline_steps, m2)
                  /\ Traced(t,
                       << "improve" >> \o (IF more THEN << >>
                                           ELSE StepCall(t, "completed", "")),
                       Tag(m2, "mirror"), << call >>)
             ELSE /\ UNCHANGED pipeline_steps
                  /\ Thrown(t, local[t].steps, error, rf, << "improve" >>, {}, call)
  /\ UNCHANGED << cost_entries, prompt_versions, sheet, runsStarted, mayFail, nextSeen, costSeen >>


\* ---------------------------------------------------- saveCostsToSupabase
\* the row createSupabaseCostEntry inserts for one ledger entry; `entry`
\* remembers which ledger entry the row was made from
CostRow(context, operation, cost) ==
  [pipeline_run_id |-> context.pipelineRun,
   assistant_id |-> context.assistant,
   operation |-> operation,
   model |-> cost.model,
   input_tokens |-> cost.inputTokens,
   output_tokens |-> cost.outputTokens,
   cache_read_tokens |-> 0,
   cache_write_tokens |-> 0,
   cost_usd |-> cost.costUsd,
   entry |-> cost.id]

RECURSIVE InsertCosts(_, _, _, _, _)
InsertCosts(table, context, operation, costs, failing) ==
  IF costs = << >> THEN table
  ELSE InsertCosts(
         IF Len(costs) \in failing THEN table
         ELSE Append(table, CostRow(context, operation, costs[1])),
         context, operation, Tail(costs), failing)

\* one insert per entry of the ledger; a throwing insert is swallowed.
\* `failing` numbers the throwing inserts from the end of the list.
saveCostsToSupabase(t) ==
  /\ pc[t] = "saveCosts"
  /\ LET costs == getSessionCosts
     IN \E failing \in SUBSET (1..Len(costs)) :
          /\ May(failing # {}, "costEntry")
          /\ faults + Cardinality(failing) <= MaxFaults
          /\ faults' = faults + Cardinality(failing)
          /\ cost_entries' = InsertCosts(cost_entries, Ctx(t)[1],
                                         "prompt_generation", costs, failing)
          /\ Traced(t, [n \in 1..Len(costs) |-> "createSupabaseCostEntry"],
                    Tag(failing # {}, "costEntry"), << >>)
  /\ pc' = [pc EXCEPT ![t] = "version"]
  /\ UNCHANGED << sessionUsage, sessionCosts, local, result, pipeline_runs,
                  pipeline_steps, prompt_versions, sheet, runsStarted,
                  mayFail, nextSeen, costSeen >>

\* ---------------------------------------------- step 3: Determine Version
\* lookup "rpc": the rpc returns; "manual": the rpc errs and the manual
\* query returns; "throw": both fail and runPipeline keeps v1; "none": no
\* context
DetermineVersion(t) ==
  /\ pc[t] = "version"
  /\ \E lookup \in { "none", "rpc", "manual", "throw" }, m1, m2 \in BOOLEAN :
       LET name == "Determine Version"
           steps1 == logStep(local[t].steps, name, "running", "", m1)
           steps2 == logStep(steps1, name, "completed", "", m2)
           table1 == Mirror(pipeline_steps, t, name, "running", "", m1)
           table2 == Mirror(table1, t, name, "completed", "", m2)
           versionNumber ==
             IF lookup \in { "rpc", "manual" }
             THEN getNextVersionNumber(prompt_versions, Ctx(t)[1].assistant,
                                       lookup = "manual")
             ELSE 1
           used == B(lookup \in { "manual", "throw" }) + B(m1) + B(m2)
       IN /\ (lookup = "none") <=> ~HasCtx(t)
          /\ May(lookup \in { "manual", "throw" }, "versionLookup")
          /\ MirrorGuard(t, m1) /\ MirrorGuard(t, m2)
          /\ faults + used <= MaxFaults
          /\ faults' = faults + used
          /\ local' = [local EXCEPT ![t] =
               [@ EXCEPT !.versionNumber = versionNumber,
                         !.version = FormatVersion(versionNumber),
                         !.steps = steps2]]
          /\ pipeline_steps' = table2
          /\ Traced(t,
               StepCall(t, "running", "")
                 \o (IF lookup = "none" THEN << >>
                     ELSE << "getNextVersionNumber" >>)
                 \o StepCall(t, "completed", ""),
               Tag(m1 \/ m2, "mirror") \cup Tag(lookup = "throw", "versionLookup"),
               << >>)
  /\ pc' = [pc EXCEPT ![t] = "inject"]
  /\ UNCHANGED << sessionUsage, sessionCosts, result, pipeline_runs,
                  cost_entries, prompt_versions, sheet, runsStarted, mayFail, nextSeen, costSeen >>

\* ------------------------------------------ step 4: Create Injection File
\* the packaging function: the artifact carries the version and the prompt
createInjectionFromPrompt(generatedPrompt, version) ==
  [version |-> version, promptContent |-> generatedPrompt.content]

PackagingErrors == { "packaging error" }

\* the call is made outside any inner try: a throw reaches the outer catch
CreateInjectionFile(t) ==
  /\ pc[t] = "inject"
  /\ \E ok, m1, m2, rf \in BOOLEAN, error \in PackagingErrors :
       LET name == "Create Injection File"
           steps1 == logStep(local[t].steps, name, "running", "", m1)
           steps2 == logStep(steps1, name, "completed", "", m2)
           table1 == Mirror(pipeline_steps, t, name, "running", "", m1)
           table2 == Mirror(table1, t, name, "completed", "", m2)
           used == B(~ok) + B(m1) + B(m2) + B(rf)
           calls == StepCall(t, "running", "") \o << "createInjectionFromPrompt" >>
       IN /\ MirrorGuard(t, m1) /\ MirrorGuard(t, m2)
          /\ m2 => ok
          /\ May(~ok, "injection")
          /\ rf => ~ok
          /\ faults + used <= MaxFaults
          /\ faults' = faults + used
          /\ IF ok
             THEN /\ local' = [local EXCEPT ![t] =
                       [@ EXCEPT !.injectionFile =
                                   Some(createInjectionFromPrompt(
                                          local[t].generatedPrompt[1],
                                          local[t].version)),
                                 !.steps = steps2]]
                  /\ pipeline_steps' = table2
                  /\ pc' = [pc EXCEPT ![t] =
                       IF HasCtx(t) THEN "savePV"
                       ELSE IF local[t].pipelineConfig.enableCostTracking
                            THEN "logCosts" ELSE "complete"]
                  /\ UNCHANGED << pipeline_runs, result >>
                  /\ Traced(t, calls \o StepCall(t, "completed", ""),
                            Tag(m1 \/ m2, "mirror"), << >>)
             ELSE /\ local' = [local EXCEPT ![t].steps = steps1]
                  /\ pipeline_steps' = table1
                  /\ createFailedResult(t, steps1, error, getSessionCosts, rf)
                  /\ Traced(t, calls \o FailCall(t),
                            Tag(m1, "mirror") \cup { "injection" }
                              \cup Tag(rf, "failRun"), << >>)
  /\ UNCHANGED << sessionUsage, sessionCosts, cost_entries, prompt_versions,
                  sheet, runsStarted, mayFail, nextSeen, costSeen >>

\* -------------------------------------------- step 5: Save Prompt Version
\* the row runPipeline hands to createPromptVersion
PromptVersionRow(loc) ==
  [pipeline_run_id |-> loc.supabaseContext[1].pipelineRun,
   assistant_id |-> loc.supabaseContext[1].assistant,
   version |-> loc.version,
   version_number |-> loc.versionNumber,
   prompt_content |-> loc.generatedPrompt[1].content,
   total_iterations |-> OrElse(Len(loc.generatedPrompt[1].iterations), 1),
   status |-> "final"]

\* an insert into a table that accepts every row
createPromptVersion_NoConstraint(table, row, throws) ==
  IF throws THEN table ELSE Append(table, row)

\* the insert: rejected by UNIQUE(assistant_id, version), or failing
createPromptVersion(table, row, throws) ==
  IF throws \/ ViolatesUnique(table, row) THEN table ELSE Append(table, row)

SavePromptVersion(t) ==
  /\ pc[t] = "savePV"
  /\ \E throws, m1, m2 \in BOOLEAN :
       LET name == "Save Prompt Version"
           row == PromptVersionRow(local[t])
           table == createPromptVersion(prompt_versions, row, throws)
           saved == table # prompt_versions
           status == StepStatus(~saved)
           error == IF saved THEN "" ELSE "Failed to save to Supabase (non-fatal)"
           steps1 == logStep(local[t].steps, name, "running", "", m1)
           steps2 == logStep(steps1, name, status, error, m2)
           table1 == Mirror(pipeline_steps, t, name, "running", "", m1)
           table2 == Mirror(table1, t, name, status, error, m2)
           used == B(throws) + B(m1) + B(m2)
       IN /\ MirrorGuard(t, m1) /\ MirrorGuard(t, m2)
          /\ May(throws, "promptVersion")
          /\ faults + used <= MaxFaults
          /\ faults' = faults + used
          /\ prompt_versions' = table
          /\ local' = [local EXCEPT ![t].steps = steps2]
          /\ pipeline_steps' = table2
          /\ Traced(t,
               StepCall(t, "running", "") \o << "createPromptVersion" >>
                 \o StepCall(t, status, error),
               Tag(m1 \/ m2, "mirror") \cup Tag(~saved, "promptVersion"),
               << >>)
  /\ pc' = [pc EXCEPT ![t] =
       IF local[t].pipelineConfig.enableCostTracking
       THEN "logCosts" ELSE "complete"]
  /\ UNCHANGED << sessionUsage, sessionCosts, result, pipeline_runs,
                  cost_entries, sheet, runsStarted, mayFail, nextSeen, costSeen >>


\* ------------------------------------------------------ step 6: Log Costs
\* the Sheets and Drive calls logCostsToSheets makes, in order
SheetCalls(exists, costs) ==
  << "findOrCreateFolder", "findCostSpreadsheet" >>
    \o (IF exists THEN << >> ELSE << "createCostSpreadsheet" >>)
    \o (IF Len(costs) > 0 THEN << "appendCostEntries" >> ELSE << >>)
    \o << "appendVersionEntries", "updateSummary" >>

\* the summary block logCostsToSheets computes from the session costs
Summary(costs) ==
  [totalCost |-> SumOver(costs, "costUsd"),
   totalInputTokens |-> SumOver(costs, "inputTokens"),
   totalOutputTokens |-> SumOver(costs, "outputTokens"),
   totalOperations |-> Len(costs)]

\* the spreadsheet after the calls before call number `thrown` (0: all)
logCostsToSheets(sh, costs, assistantId, version, thrown) ==
  LET calls == SheetCalls(sh.exists, costs)
      Returned(name) ==
        \E n \in 1..Len(calls) : calls[n] = name /\ (thrown = 0 \/ n < thrown)
  IN [exists |-> sh.exists \/ Returned("createCostSpreadsheet"),
      costRows |-> IF Returned("appendCostEntries")
                   THEN sh.costRows \o costs ELSE sh.costRows,
      versionRows |-> IF Returned("appendVersionEntries")
                      THEN Append(sh.versionRows,
                                  [assistant_id |-> assistantId,
                                   version |-> version, status |-> "final"])
                      ELSE sh.versionRows,
      summary |-> IF Returned("updateSummary")
                  THEN Some(Summary(costs)) ELSE sh.summary]

LogCosts(t) ==
  /\ pc[t] = "logCosts"
  /\ LET costs == getSessionCosts
         calls == SheetCalls(sheet.exists, costs)
     IN \E thrown \in 0..Len(calls), m1, m2 \in BOOLEAN :
          LET name == "Log Costs"
              failed == thrown # 0
              status == StepStatus(failed)
              error == IF failed
                       THEN "Failed to log to Google Sheets (non-fatal)" ELSE ""
              steps1 == logStep(local[t].steps, name, "running", "", m1)
              steps2 == logStep(steps1, name, status, error, m2)
              table1 == Mirror(pipeline_steps, t, name, "running", "", m1)
              table2 == Mirror(table1, t, name, status, error, m2)
              used == B(failed) + B(m1) + B(m2)
          IN /\ MirrorGuard(t, m1) /\ MirrorGuard(t, m2)
             /\ May(failed, "sheets")
             /\ faults + used <= MaxFaults
             /\ faults' = faults + used
             /\ sheet' = logCostsToSheets(sheet, costs, local[t].assistantId,
                                          local[t].version, thrown)
             /\ local' = [local EXCEPT ![t].steps = steps2]
             /\ pipeline_steps' = table2
             /\ Traced(t,
                  StepCall(t, "running", "")
                    \o SubSeq(calls, 1, IF failed THEN thrown ELSE Len(calls))
                    \o StepCall(t, status, error),
                  Tag(m1 \/ m2, "mirror") \cup Tag(failed, "sheets"), << >>)
  /\ pc' = [pc EXCEPT ![t] = "complete"]
  /\ UNCHANGED << sessionUsage, sessionCosts, result, pipeline_runs,
                  cost_entries, prompt_versions, runsStarted, mayFail, nextSeen, costSeen >>

\* ------------------------------------- completePipelineRun and the result
CompletedResult(loc, costs) ==
  [status |-> "completed", error |-> "",
   generatedPrompt |-> loc.generatedPrompt,
   injectionFile |-> loc.injectionFile,
   costEntries |-> costs, steps |-> loc.steps]

CompleteRun(t) ==
  /\ pc[t] = "complete"
  /\ \E throws \in BOOLEAN :
       /\ throws => HasCtx(t)
       /\ May(throws, "completeRun")
       /\ faults + B(throws) <= MaxFaults
       /\ faults' = faults + B(throws)
       /\ pipeline_runs' =
            IF HasCtx(t) /\ ~throws
            THEN completePipelineRun(pipeline_runs, Ctx(t)[1].pipelineRun)
            ELSE pipeline_runs
       /\ Traced(t, IF HasCtx(t) THEN << "completePipelineRun" >> ELSE << >>,
                 Tag(throws, "completeRun"), << >>)
  /\ result' = [result EXCEPT ![t] =
                  Some(CompletedResult(local[t], getSessionCosts))]
  /\ pc' = [pc EXCEPT ![t] = "done"]
  /\ UNCHANGED << sessionUsage, sessionCosts, local, pipeline_steps,
                  cost_entries, prompt_versions, sheet, runsStarted, mayFail, nextSeen, costSeen >>

\* ------------------------------------------------------- specifications
\* one run
Next ==
  \E t \in Tasks :
    \/ StartOnce(t)
    \/ InitContext(t)
    \/ LoadAccountConfig(t)
    \/ GenerateInitialPrompt(t)
    \/ AnalyzeGeneratedPrompt(t)
    \/ ImproveGeneratedPrompt(t)
    \/ saveCostsToSupabase(t)
    \/ DetermineVersion(t)
    \/ CreateInjectionFile(t)
    \/ SavePromptVersion(t)
    \/ LogCosts(t)
    \/ CompleteRun(t)

Spec == Init /\ [][Next]_vars

\* what the event loop resumes: the continuation of an invocation after
\* the call it awaits has returned or thrown
Resume(t) ==
  \/ InitContext(t)
  \/ LoadAccountConfig(t)
  \/ GenerateInitialPrompt(t)
  \/ AnalyzeGeneratedPrompt(t)
  \/ ImproveGeneratedPrompt(t)
  \/ saveCostsToSupabase(t)
  \/ DetermineVersion(t)
  \/ CreateInjectionFile(t)
  \/ SavePromptVersion(t)
  \/ LogCosts(t)
  \/ CompleteRun(t)

\* one run in which every awaited call returns or throws
SpecLive == Init /\ [][Next]_vars /\ \A t \in Tasks : WF_vars(Resume(t))

\* runs of one process that interleave at their awaits
NextConc ==
  \E t \in Tasks :
    \/ StartConc(t)
    \/ InitContext(t)
    \/ LoadAccountConfig(t)
    \/ GenerateInitialPrompt(t)
    \/ AnalyzeGeneratedPrompt(t)
    \/ ImproveGeneratedPrompt(t)
    \/ saveCostsToSupabase(t)
    \/ DetermineVersion(t)
    \/ CreateInjectionFile(t)
    \/ SavePromptVersion(t)
    \/ LogCosts(t)
    \/ CompleteRun(t)

\* two requests race while every collaborator call returns
InitConc ==
  /\ Loaded
  /\ mayFail = {}

SpecConc == InitConc /\ [][NextConc]_vars

\* the scenario of successive runs leaves out the failures of step-status
\* writes and of cost_entries inserts: both are caught where they are made
\* and touch nothing but the pipeline_steps and cost_entries rows of their
\* own run
InitRuns ==
  /\ Loaded
  /\ mayFail = FailureKinds \ { "mirror", "costEntry" }

\* runs of one process, one after another
NextSeq ==
  \E t \in Tasks :
    \/ StartSeq(t)
    \/ InitContext(t)
    \/ LoadAccountConfig(t)
    \/ GenerateInitialPrompt(t)
    \/ AnalyzeGeneratedPrompt(t)
    \/ ImproveGeneratedPrompt(t)
    \/ saveCostsToSupabase(t)
    \/ DetermineVersion(t)
    \/ CreateInjectionFile(t)
    \/ SavePromptVersion(t)
    \/ LogCosts(t)
    \/ CompleteRun(t)

SpecSeq == InitRuns /\ [][NextSeq]_vars


\* rows of prompt_versions for the version numbers `numbers`, ascending
RECURSIVE VersionRows(_, _)
VersionRows(numbers, assistantId) ==
  IF numbers = {} THEN << >>
  ELSE LET least == CHOOSE n \in numbers : \A m \in numbers : n <= m
       IN << [pipeline_run_id |-> 0, assistant_id |-> assistantId,
              version |-> FormatVersion(least), version_number |-> least,
              prompt_content |-> generatePromptFromBriefing,
              total_iterations |-> 1, status |-> "final"] >>
            \o VersionRows(numbers \ { least }, assistantId)

\* ------------------------------------------------- two requests, one assistant
\* the assistant both requests are for
RacedAssistant == "asst-1"

\* a request for that assistant, handled while the other is suspended
StartRace(t) ==
  /\ pc[t] = "idle"
  /\ Enter(t, { DEFAULT_CONFIG })
  /\ local'[t].assistantId = RacedAssistant

NextRace ==
  \E t \in Tasks :
    \/ StartRace(t)
    \/ InitContext(t)
    \/ LoadAccountConfig(t)
    \/ GenerateInitialPrompt(t)
    \/ AnalyzeGeneratedPrompt(t)
    \/ ImproveGeneratedPrompt(t)
    \/ saveCostsToSupabase(t)
    \/ DetermineVersion(t)
    \/ CreateInjectionFile(t)
    \/ SavePromptVersion(t)
    \/ LogCosts(t)
    \/ CompleteRun(t)

\* the assistant has versions v1 and v2 already; every collaborator call
\* returns
InitRace ==
  /\ Process
  /\ mayFail = {}
  /\ costSeen = NoCost
  /\ prompt_versions = VersionRows({ 1, 2 }, RacedAssistant)

SpecRace == InitRace /\ [][NextRace]_vars

\* ------------------------------------------- the version functions alone
\* the three ways the repository computes an assistant's next version,
\* applied to tables of any content (rows can have been deleted)
InitVersion ==
  /\ Process
  /\ mayFail = {}
  /\ costSeen = NoCost
  /\ \E first, second \in SUBSET (1..MaxVersion) :
       /\ Cardinality(first) <= 2
       /\ Cardinality(second) <= 1
       /\ prompt_versions = VersionRows(first, "asst-1")
                              \o VersionRows(second, "asst-2")

Seen(assistantId, value) == Some([assistantId |-> assistantId, value |-> value])

VersionsOf(table, assistantId) ==
  LET rows == RowsOf(table, assistantId)
  IN [n \in 1..Len(rows) |-> rows[n].version]

QueryRpc(assistantId) ==
  /\ nextSeen' = [nextSeen EXCEPT !.rpc =
       Seen(assistantId, getNextVersionNumber(prompt_versions, assistantId, FALSE))]
  /\ UNCHANGED << sessionUsage, sessionCosts, pc, local, result,
                  pipeline_runs, pipeline_steps, cost_entries,
                  prompt_versions, sheet, runsStarted, faults, trace, mayFail,
                  costSeen >>

QueryManual(assistantId) ==
  /\ nextSeen' = [nextSeen EXCEPT !.manual =
       Seen(assistantId, getNextVersionNumber(prompt_versions, assistantId, TRUE))]
  /\ UNCHANGED << sessionUsage, sessionCosts, pc, local, result,
                  pipeline_runs, pipeline_steps, cost_entries,
                  prompt_versions, sheet, runsStarted, faults, trace, mayFail,
                  costSeen >>

QueryTracker(assistantId) ==
  /\ nextSeen' = [nextSeen EXCEPT !.tracker =
       Seen(assistantId, getNextVersion(VersionsOf(prompt_versions, assistantId)))]
  /\ UNCHANGED << sessionUsage, sessionCosts, pc, local, result,
                  pipeline_runs, pipeline_steps, cost_entries,
                  prompt_versions, sheet, runsStarted, faults, trace, mayFail,
                  costSeen >>

NextVersion ==
  \E assistantId \in Assistants :
    \/ QueryRpc(assistantId)
    \/ QueryManual(assistantId)
    \/ QueryTracker(assistantId)

SpecVersion == InitVersion /\ [][NextVersion]_vars

\* ------------------------------------------------- the cost calculator alone
\* token counts: a few small ones and one of the size of a real prompt
TokenCounts == 0..MaxTokens \cup { 100000 }

TokenUsages ==
  [inputTokens : TokenCounts, outputTokens : TokenCounts,
   cacheReadTokens : TokenCounts, cacheWriteTokens : TokenCounts]

\* the models of the price table and one that is missing from it
Models == DOMAIN MODEL_PRICING \cup { "unknown-model" }

InitCost ==
  /\ Process
  /\ prompt_versions = << >>
  /\ mayFail = {}
  /\ \E usage \in TokenUsages, model \in Models :
       costSeen = [usage |-> usage, model |-> model, cost |-> None]

\* calculateCost(usage, model)
Calculate ==
  /\ costSeen.cost = None
  /\ costSeen' = [costSeen EXCEPT !.cost = Some(calculateCost(costSeen.usage,
                                                         costSeen.model))]
  /\ UNCHANGED << sessionUsage, sessionCosts, pc, local, result,
                  pipeline_runs, pipeline_steps, cost_entries,
                  prompt_versions, sheet, runsStarted, faults, trace, mayFail,
                  nextSeen >>

SpecCost == InitCost /\ [][Calculate]_vars

\* ---------------------------------------------------------------- claims
Returned(t) == pc[t] = "done" /\ result[t] # None

Generated(t) == local[t].generatedPrompt # None

Operations(t) ==
  [n \in 1..Len(trace[t].completions) |-> trace[t].completions[n].operation]

HasStep(steps, name, status) ==
  \E n \in 1..Len(steps) : steps[n].name = name /\ steps[n].status = status

\* C1: a run in which a completion call (generate, analyze or improve)
\* threw returns status "failed" with a non-empty error and with neither
\* generatedPrompt nor injectionFile.
C1_FailedGeneration ==
  \A t \in Tasks :
    (Returned(t) /\ "completion" \in trace[t].failures) =>
      /\ result[t][1].status = "failed"
      /\ result[t][1].error # ""
      /\ result[t][1].generatedPrompt = None
      /\ result[t][1].injectionFile = None

\* an improve call threw after generate and analyze had returned
C1_Witness ==
  \E t \in Tasks :
    /\ Returned(t)
    /\ "completion" \in trace[t].failures
    /\ Len(trace[t].completions) = 3
    /\ result[t][1].status = "failed"

\* C2: a run whose only failures are the PromptVersion insert and/or the
\* spreadsheet calls returns "completed" with generatedPrompt set, and its
\* step history has a "failed" entry for each of the two steps that failed.
C2_AuxiliaryFailures ==
  \A t \in Tasks :
    (/\ Returned(t)
     /\ trace[t].failures # {}
     /\ trace[t].failures \subseteq { "promptVersion", "sheets" }) =>
      /\ result[t][1].status = "completed"
      /\ result[t][1].generatedPrompt # None
      /\ "promptVersion" \in trace[t].failures =>
           HasStep(result[t][1].steps, "Save Prompt Version", "failed")
      /\ "sheets" \in trace[t].failures =>
           HasStep(result[t][1].steps, "Log Costs", "failed")

\* both the insert and the spreadsheet flush failed in one run
C2_Witness ==
  \E t \in Tasks :
    /\ Returned(t)
    /\ trace[t].failures = { "promptVersion", "sheets" }
    /\ result[t][1].status = "completed"

\* C3: once Generate Prompt has completed, no failure of a later step or
\* of a durable-store write makes the run return "failed".
C3_GenerationDecides ==
  \A t \in Tasks :
    (Returned(t) /\ Generated(t)) => result[t][1].status # "failed"

\* C4: the costEntries of a returned result are exactly the entries of the
\* completion calls of that run, also when two runs interleave.
C4_OwnCostEntries ==
  \A t \in Tasks :
    Returned(t) =>
      LET costEntries == result[t][1].costEntries
          own == { n \in 1..Len(trace[t].completions) :
                     trace[t].completions[n].ok }
      IN /\ \A n \in 1..Len(costEntries) :
              costEntries[n].id[1] = local[t].runId
         /\ { costEntries[n].id[2] : n \in 1..Len(costEntries) } = own

\* C5: the cost of a completion call is inserted into cost_entries at most
\* once, and under the pipeline run of the run that made the call.
C5_CostRowsOnce ==
  \A n \in 1..Len(cost_entries) :
    /\ cost_entries[n].entry[1] = cost_entries[n].pipeline_run_id
    /\ \A m \in 1..Len(cost_entries) :
         cost_entries[m].entry = cost_entries[n].entry => m = n

\* C6: with maxIterations = 0 the loop makes one completion call
\* (generate), no analyze or improve call, and returns the initial
\* generation as content with an empty iteration list.
C6_ZeroIterations ==
  \A t \in Tasks :
    (Generated(t) /\ local[t].pipelineConfig.maxIterations = 0) =>
      /\ Operations(t) = << "prompt_generation" >>
      /\ local[t].generatedPrompt[1].content = local[t].initialPrompt[1]
      /\ local[t].generatedPrompt[1].simpleIterations = << >>

\* C7: with maxIterations = k > 0 and no failing call the loop makes
\* 1 + 2k completion calls, generate then k times analyze and improve, and
\* returns k iteration records numbered 1, 2, ..., k in that order.
C7_ExactlyKRounds ==
  \A t \in Tasks :
    LET k == local[t].pipelineConfig.maxIterations
    IN (Generated(t) /\ k > 0 /\ "completion" \notin trace[t].failures) =>
         LET records == local[t].generatedPrompt[1].simpleIterations
         IN /\ Len(Operations(t)) = 1 + 2 * k
            /\ Operations(t)[1] = "prompt_generation"
            /\ \A n \in 1..k :
                 /\ Operations(t)[2 * n] = "prompt_analysis"
                 /\ Operations(t)[2 * n + 1] = "prompt_improvement"
            /\ Len(records) = k
            /\ \A n \in 1..k : records[n].iterationNumber = n

\* a generation of two rounds has returned
C7_Witness ==
  \E t \in Tasks :
    /\ Generated(t)
    /\ local[t].pipelineConfig.maxIterations = 2
    /\ Len(local[t].generatedPrompt[1].simpleIterations) = 2

RECURSIVE SumUsage(_, _)
SumUsage(completions, field) ==
  IF completions = << >> THEN 0
  ELSE completions[1].usage[field] + SumUsage(Tail(completions), field)

LedgerOrder(k) ==
  [n \in 1..(1 + 2 * k) |->
     IF n = 1 THEN "prompt_generation"
     ELSE IF n % 2 = 0 THEN "prompt_analysis" ELSE "prompt_improvement"]

\* C8: in a run with maxIterations = k whose completion calls all return,
\* the ledger holds 1 + 2k entries in the order generation, then analysis
\* and improvement k times, and its token totals are the sums of the
\* usages of the calls.
C8_LedgerOfRun ==
  \A t \in Tasks :
    Generated(t) =>
      LET k == local[t].pipelineConfig.maxIterations
      IN /\ [n \in 1..Len(sessionCosts) |-> sessionCosts[n].operation]
              = LedgerOrder(k)
         /\ sessionUsage.inputTokens = SumUsage(trace[t].completions, "inputTokens")
         /\ sessionUsage.outputTokens = SumUsage(trace[t].completions, "outputTokens")

ExpectedNext(assistantId) ==
  LET numbers == { row.version_number :
                     row \in { r \in Range(prompt_versions) :
                                 r.assistant_id = assistantId } }
  IN IF numbers = {} THEN 1
     ELSE 1 + CHOOSE n \in numbers : \A m \in numbers : m <= n

\* C9: the next version of an assistant is 1 ("v1") when it has no
\* version, and n + 1 ("v" followed by n + 1) when its highest
\* versionNumber is n: by the rpc, by the manual query and by
\* getNextVersion of the version tracker.
C9_NextVersion ==
  /\ nextSeen.rpc # None =>
       nextSeen.rpc[1].value = ExpectedNext(nextSeen.rpc[1].assistantId)
  /\ nextSeen.manual # None =>
       nextSeen.manual[1].value = ExpectedNext(nextSeen.manual[1].assistantId)
  /\ nextSeen.tracker # None =>
       LET next == ExpectedNext(nextSeen.tracker[1].assistantId)
           value == nextSeen.tracker[1].value
       IN /\ value[1] = "v"
          /\ parseInt(Tail(value)) = next
          /\ next = 1 => value = << "v", "1" >>
          /\ next = 10 => value = << "v", "1", "0" >>
          /\ next = 11 => value = << "v", "1", "1" >>

\* all three have answered 10 for an assistant whose highest version is 9
C9_Witness ==
  /\ nextSeen.rpc # None /\ nextSeen.rpc[1].value = 10
  /\ nextSeen.manual # None /\ nextSeen.manual[1].value = 10
  /\ nextSeen.tracker # None /\ nextSeen.tracker[1].value = << "v", "1", "0" >>

\* C10: when the runs for an assistant never overlap, the version numbers
\* of its prompt_versions rows are 1, 2, ..., m in creation order, also
\* after runs whose version lookup or insert failed.
C10_NoGaps ==
  \A assistantId \in Assistants :
    LET rows == RowsOf(prompt_versions, assistantId)
    IN \A n \in 1..Len(rows) : rows[n].version_number = n

\* a run whose lookup failed fell back to v1 and had its insert rejected,
\* the assistant having a version already
C10_Witness ==
  \E t \in Tasks :
    /\ Returned(t)
    /\ { "versionLookup", "promptVersion" } \subseteq trace[t].failures
    /\ Len(RowsOf(prompt_versions, local[t].assistantId)) >= 1

\* the version lookup is behind, the insert ahead
BetweenReadAndWrite(t) == pc[t] \in { "inject", "savePV" }

\* C11: two concurrent runs for the same assistant that have both looked
\* the next version up before either has inserted its row hold the same
\* version: both read the highest versionNumber n of the table and both
\* are assigned n + 1.
C11_DuplicateVersion ==
  \A t, u \in Tasks :
    (/\ t # u
     /\ BetweenReadAndWrite(t) /\ BetweenReadAndWrite(u)
     /\ local[t].assistantId = local[u].assistantId) =>
      /\ local[t].versionNumber = ExpectedNext(local[t].assistantId)
      /\ local[u].versionNumber = local[t].versionNumber
      /\ local[u].version = local[t].version

\* both runs read n = 2, both were assigned version 3, and both returned;
\* one row with version 3 is in the table
C11_Witness ==
  /\ \A t \in Tasks :
       /\ Returned(t)
       /\ local[t].assistantId = RacedAssistant
       /\ local[t].versionNumber = 3
       /\ local[t].version = << "v", "3" >>
  /\ Cardinality({ n \in 1..Len(prompt_versions) :
                     prompt_versions[n].version_number = 3 }) = 1

\* the calls of the steps after Load Account Config
LaterStepCalls ==
  { "generate", "analyze", "improve", "createSupabaseCostEntry",
    "getNextVersionNumber", "createInjectionFromPrompt",
    "createPromptVersion", "findOrCreateFolder", "findCostSpreadsheet",
    "createCostSpreadsheet", "appendCostEntries", "appendVersionEntries",
    "updateSummary", "completePipelineRun" }

\* C12: a run whose account config was not found or whose API-key
\* validation failed has returned status "failed" with that error, and has
\* made no completion call, version lookup, packaging call, PromptVersion
\* insert or spreadsheet write; its step history has no later step.
C12_FatalAccount ==
  \A t \in Tasks :
    ({ "account", "apiKey" } \cap trace[t].failures # {}) =>
      /\ Returned(t)
      /\ result[t][1].status = "failed"
      /\ result[t][1].error =
           (IF "account" \in trace[t].failures THEN "Account not found"
            ELSE "ANTHROPIC_API_KEY environment variable not set")
      /\ Range(trace[t].log) \cap LaterStepCalls = {}
      /\ trace[t].completions = << >>
      /\ \A n \in 1..Len(result[t][1].steps) :
           result[t][1].steps[n].name = "Load Account Config"
      /\ prompt_versions = << >> /\ sheet = NoSheet /\ cost_entries = << >>

\* the API key was not configured: the account was loaded, the validation
\* was made, and the run returned "failed" with the step recorded as failed
C12_Witness ==
  \E t \in Tasks :
    /\ Returned(t)
    /\ "apiKey" \in trace[t].failures
    /\ "validateApiKeyConfigured" \in Range(trace[t].log)
    /\ result[t][1].status = "failed"
    /\ HasStep(result[t][1].steps, "Load Account Config", "failed")

\* the repository calls a run makes once it has a context
DurableCalls ==
  { "startPipelineStep", "completePipelineStep", "failPipelineStep",
    "createSupabaseCostEntry", "getNextVersionNumber", "createPromptVersion",
    "completePipelineRun", "failPipelineRun" }

FatalKinds == { "account", "apiKey", "completion", "injection" }

\* C13: a run in which a call of the context initialisation threw has no
\* context and goes on with Load Account Config; it makes no durable-store
\* call after the initialisation, and unless a fatal failure follows it
\* returns "completed" with its prompt, its steps up to Create Injection
\* File completed.
C13_ContextFailure ==
  \A t \in Tasks :
    ("context" \in trace[t].failures) =>
      /\ Ctx(t) = None
      /\ pc[t] # "init"
      /\ Range(trace[t].log) \cap DurableCalls = {}
      /\ pipeline_steps[local[t].runId] = None
      /\ (Returned(t) /\ trace[t].failures \cap FatalKinds = {}) =>
           /\ result[t][1].status = "completed"
           /\ result[t][1].generatedPrompt # None
           /\ \A n \in 1..4 :
                HasStep(result[t][1].steps, stepDefinitions[n], "completed")
           /\ ~HasStep(result[t][1].steps, "Save Prompt Version", "running")

\* the bulk insert of the step rows threw, after the three calls before it
\* had returned, and the run returned "completed" with its costs logged to
\* the spreadsheet
C13_Witness ==
  \E t \in Tasks :
    /\ Returned(t)
    /\ "context" \in trace[t].failures
    /\ "createPipelineSteps" \in Range(trace[t].log)
    /\ result[t][1].status = "completed"
    /\ HasStep(result[t][1].steps, "Log Costs", "completed")

\* the transitions of one step
Ran(name, status) == << << name, "running" >>, << name, status >> >>

\* the step history of a returned run, as its configuration, its context
\* and its failures other than those of step-status writes determine it
StepsWithoutMirror(t) ==
  LET failures == trace[t].failures \ { "mirror" }
      Outcome(kind) == IF kind \in failures THEN "failed" ELSE "completed"
  IN IF { "account", "apiKey" } \cap failures # {}
     THEN Ran("Load Account Config", "failed")
     ELSE Ran("Load Account Config", "completed")
            \o << << "Generate Prompt", "running" >> >>
            \o (IF "completion" \in failures THEN << >>
                ELSE << << "Generate Prompt", "completed" >> >>
                       \o Ran("Determine Version", "completed")
                       \o << << "Create Injection File", "running" >> >>
                       \o (IF "injection" \in failures THEN << >>
                           ELSE << << "Create Injection File", "completed" >> >>
                                  \o (IF HasCtx(t)
                                      THEN Ran("Save Prompt Version",
                                               Outcome("promptVersion"))
                                      ELSE << >>)
                                  \o (IF local[t].pipelineConfig.enableCostTracking
                                      THEN Ran("Log Costs", Outcome("sheets"))
                                      ELSE << >>)))

Transitions(steps) ==
  [n \in 1..Len(steps) |-> << steps[n].name, steps[n].status >>]

\* C14: the step history and the status of a returned result are those
\* that the run's configuration and its other failures determine, whether
\* or not a durable step-status write of the run threw: such a throw
\* changes no history entry, no later step and not the status.
C14_MirrorSwallowed ==
  \A t \in Tasks :
    Returned(t) =>
      /\ Transitions(result[t][1].steps) = StepsWithoutMirror(t)
      /\ (result[t][1].status = "failed") <=>
           (trace[t].failures \cap FatalKinds # {})

\* a run returned "completed" after a step-status write had thrown: the
\* history has the step as completed, the durable step row has not
C14_Witness ==
  \E t \in Tasks, name \in StepNames :
    /\ Returned(t)
    /\ "mirror" \in trace[t].failures
    /\ result[t][1].status = "completed"
    /\ HasStep(result[t][1].steps, name, "completed")
    /\ Ctx(t) # None
    /\ pipeline_steps[local[t].runId][1][name] # "completed"

\* C15: after a run has returned, the pipeline_runs row it created is
\* "completed" or "failed" and no longer "running", unless the terminal
\* update itself threw.
C15_RunRowTerminal ==
  \A t \in Tasks :
    (/\ Returned(t)
     /\ pipeline_runs[local[t].runId] # None
     /\ { "completeRun", "failRun" } \cap trace[t].failures = {}) =>
      pipeline_runs[local[t].runId][1].status \in { "completed", "failed" }

\* the terminal-status updates a run has issued, in order
TerminalUpdates(t) ==
  SelectSeqBy(trace[t].log, { "completePipelineRun", "failPipelineRun" })

\* C16: a run issues at most one terminal-status update for its
\* pipeline_runs row; when the update did not throw the row has the status
\* of the returned result and has been updated once, and a failed row
\* carries the error message of the result and the duration.
C16_OneTerminalUpdate ==
  \A t \in Tasks :
    /\ Len(TerminalUpdates(t)) <= 1
    /\ (/\ Returned(t)
        /\ TerminalUpdates(t) # << >>
        /\ { "completeRun", "failRun" } \cap trace[t].failures = {}) =>
         LET row == pipeline_runs[local[t].runId][1]
         IN /\ row.status = result[t][1].status
            /\ row.updates = 1
            /\ TerminalUpdates(t) =
                 (IF row.status = "failed" THEN << "failPipelineRun" >>
                  ELSE << "completePipelineRun" >>)
            /\ row.status = "failed" =>
                 /\ row.error_message = result[t][1].error
                 /\ row.error_message # ""
                 /\ row.duration_ms

\* a completion call threw in a run with a context: the row is "failed"
\* with the provider's message
C16_Witness ==
  \E t \in Tasks :
    /\ Returned(t)
    /\ TerminalUpdates(t) = << "failPipelineRun" >>
    /\ pipeline_runs[local[t].runId] # None
    /\ pipeline_runs[local[t].runId][1].status = "failed"
    /\ pipeline_runs[local[t].runId][1].error_message \in ProviderErrors

\* C17: the step history of a run in which a completion call threw has a
\* "Generate Prompt" entry with status "failed", and the pipeline_steps row
\* of Generate Prompt, when the run has a context and its step-status
\* writes returned, is "failed".
C17_GenerateStepFailed ==
  \A t \in Tasks :
    (Returned(t) /\ "completion" \in trace[t].failures) =>
      /\ HasStep(result[t][1].steps, "Generate Prompt", "failed")
      /\ (Ctx(t) # None /\ "mirror" \notin trace[t].failures) =>
           pipeline_steps[local[t].runId][1]["Generate Prompt"] = "failed"

StepOrder(name) == CHOOSE n \in 1..Len(stepDefinitions) : stepDefinitions[n] = name

Terminal(status) == status \in { "completed", "failed" }

\* C18: in the step history of a returned result the steps are in the
\* order of the fixed sequence; every "completed" or "failed" entry
\* directly follows the "running" entry of its step, a step has at most
\* one "running" and one terminal entry, and every "running" entry but the
\* first directly follows the terminal entry of an earlier step.
C18_StepOrder ==
  \A t \in Tasks :
    Returned(t) =>
      LET h == result[t][1].steps
      IN /\ \A n \in 1..Len(h) : h[n].name \in StepNames
         /\ \A n, m \in 1..Len(h) :
              n < m => StepOrder(h[n].name) <= StepOrder(h[m].name)
         /\ \A n, m \in 1..Len(h) :
              (/\ n # m /\ h[n].name = h[m].name) =>
                 Terminal(h[n].status) # Terminal(h[m].status)
         /\ \A n \in 1..Len(h) :
              IF Terminal(h[n].status)
              THEN /\ n > 1
                   /\ h[n - 1].name = h[n].name
                   /\ h[n - 1].status = "running"
              ELSE /\ h[n].status = "running"
                   /\ n > 1 =>
                        /\ Terminal(h[n - 1].status)
                        /\ StepOrder(h[n - 1].name) < StepOrder(h[n].name)

\* a run with all six steps, the last two failed
C18_Witness ==
  \E t \in Tasks :
    /\ Returned(t)
    /\ Len(result[t][1].steps) = 2 * Len(stepDefinitions)
    /\ HasStep(result[t][1].steps, "Save Prompt Version", "failed")
    /\ HasStep(result[t][1].steps, "Log Costs", "failed")

\* C19: in a returned run with cost tracking enabled whose Generate Prompt
\* completed, logCostsToSheets was called, with or without a context and
\* whatever cost_entries or prompt_versions insert failed; and a run whose
\* only failures are those of the two sinks returns "completed".
C19_SinksIndependent ==
  \A t \in Tasks :
    (Returned(t) /\ Generated(t)) =>
      /\ local[t].pipelineConfig.enableCostTracking =>
           /\ "findOrCreateFolder" \in Range(trace[t].log)
           /\ HasStep(result[t][1].steps, "Log Costs", "running")
      /\ trace[t].failures \subseteq { "costEntry", "promptVersion", "sheets" } =>
           result[t][1].status = "completed"

\* C20: the costEntries of the result of a run executed alone are the
\* entries of the ledger at return: their costUsd sum is the ledger's total
\* cost, and their inputTokens and outputTokens sums are the ledger's token
\* totals.
C20_ResultIsLedger ==
  \A t \in Tasks :
    Returned(t) =>
      LET costEntries == result[t][1].costEntries
      IN /\ costEntries = getSessionCosts
         /\ Len(costEntries) =
              Cardinality({ n \in 1..Len(trace[t].completions) :
                              trace[t].completions[n].ok })
         /\ SumOver(costEntries, "costUsd") = getSessionTotalCost
         /\ SumOver(costEntries, "inputTokens") = sessionUsage.inputTokens
         /\ SumOver(costEntries, "outputTokens") = sessionUsage.outputTokens

\* a failed result with the entries of the two calls that had returned
C20_Witness ==
  \E t \in Tasks :
    /\ Returned(t)
    /\ result[t][1].status = "failed"
    /\ Len(result[t][1].costEntries) = 2
    /\ SumOver(result[t][1].costEntries, "outputTokens") > 0
    /\ SumOver(result[t][1].costEntries, "costUsd") > 0

\* C21: every invocation of runPipeline whose awaited calls each return or
\* throw ends by returning a PipelineResult, and the status of a returned
\* result is "completed" or "failed": no failure leaves the invocation
\* without a result.
C21_Terminates ==
  /\ [](\A t \in Tasks :
          /\ pc[t] = "done" => result[t] # None
          /\ result[t] # None =>
               result[t][1].status \in { "completed", "failed" })
  /\ \A t \in Tasks : (pc[t] = "init") ~> Returned(t)

\* a run returned "failed" in which two collaborators had thrown: the
\* completion provider and the update that marks the run failed
C21_Witness ==
  \E t \in Tasks :
    /\ Returned(t)
    /\ { "completion", "failRun" } \subseteq trace[t].failures
    /\ result[t][1].status = "failed"

\* C22: an invocation that has been entered and has made no call yet finds
\* the four token totals at 0 and the cost-entry list empty, whatever the
\* ledger held before; and the calls of an invocation hold resetSession
\* exactly once, as their first.
C22_ResetOnce ==
  \A t \in Tasks :
    /\ pc[t] = "init" =>
         /\ sessionUsage.inputTokens = 0
         /\ sessionUsage.outputTokens = 0
         /\ sessionUsage.cacheReadTokens = 0
         /\ sessionUsage.cacheWriteTokens = 0
         /\ sessionCosts = << >>
    /\ pc[t] # "idle" =>
         /\ trace[t].log[1] = "resetSession"
         /\ Len(SelectSeqBy(trace[t].log, { "resetSession" })) = 1

\* the second run has been entered, after a run whose calls had reported
\* cache tokens and whose costs are in cost_entries
C22_Witness ==
  \E t \in Tasks :
    /\ pc[t] = "init"
    /\ local[t].runId = 2
    /\ sessionCosts = << >>
    /\ \E n \in 1..Len(cost_entries) :
         cost_entries[n].pipeline_run_id = 1 /\ cost_entries[n].input_tokens = 7

\* the rates calculateCost is to use for a model
RatesOf(model) ==
  IF model \in DOMAIN MODEL_PRICING THEN MODEL_PRICING[model]
  ELSE MODEL_PRICING["claude-opus-4-5-20251101"]

\* C23: calculateCost(U, M) returns inputCost and outputCost as the token
\* count times the model's rate, totalCostUsd as their sum plus the cache
\* cost (cache-read and cache-write tokens times their rates), every
\* component non-negative; for a model missing from the price table the
\* rates are those of claude-opus-4-5-20251101, and a value is returned.
C23_CostFormula ==
  costSeen.cost # None =>
    LET usage == costSeen.usage
        rates == RatesOf(costSeen.model)
        cost == costSeen.cost[1]
        cache == usage.cacheReadTokens * rates.cacheReadPer1M
                   + usage.cacheWriteTokens * rates.cacheWritePer1M
    IN /\ cost.inputCost = usage.inputTokens * rates.inputPer1M
       /\ cost.outputCost = usage.outputTokens * rates.outputPer1M
       /\ cost.cacheCost = (IF cache > 0 THEN Some(cache) ELSE None)
       /\ cost.totalCostUsd = cost.inputCost + cost.outputCost + cache
       /\ cost.inputCost >= 0 /\ cost.outputCost >= 0 /\ cache >= 0
       /\ (usage.inputTokens = 100000
             /\ costSeen.model \in { "unknown-model", DEFAULT_MODEL }) =>
            cost.inputCost = 150000000

\* 100,000 tokens of each kind on a model missing from the table: a tenth
\* of the sum of the four rates of claude-opus-4-5-20251101, 11.025 USD
C23_Witness ==
  /\ costSeen.cost # None
  /\ costSeen.model = "unknown-model"
  /\ costSeen.usage = [inputTokens |-> 100000, outputTokens |-> 100000,
                       cacheReadTokens |-> 100000, cacheWriteTokens |-> 100000]
  /\ costSeen.cost[1].totalCostUsd = 1102500000

\* the cost_entries rows of a pipeline run, in insertion order
CostRowsOf(runId) ==
  SelectSeqBy(cost_entries,
              { row \in Range(cost_entries) : row.pipeline_run_id = runId })

\* C24: after a run with a context whose cost_entries inserts all returned,
\* the table holds exactly one row per entry of the ledger, and each row
\* has the operation of the entry it was made from.
C24_CostRowPerEntry ==
  \A t \in Tasks :
    (/\ Returned(t) /\ Generated(t) /\ Ctx(t) # None
     /\ "costEntry" \notin trace[t].failures) =>
      LET rows == CostRowsOf(local[t].runId)
      IN /\ Len(rows) = Len(sessionCosts)
         /\ \A n \in 1..Len(rows) :
              /\ rows[n].entry = sessionCosts[n].id
              /\ rows[n].operation = sessionCosts[n].operation

NonFatalKinds == { "versionLookup", "costEntry", "promptVersion", "sheets" }

\* the step in which a non-fatal failure occurs
StepOfFailure(kind) ==
  CASE kind = "versionLookup" -> "Determine Version"
    [] kind = "costEntry" -> "Generate Prompt"
    [] kind = "promptVersion" -> "Save Prompt Version"
    [] kind = "sheets" -> "Log Costs"

\* C25: the step history of a returned run has a "failed" entry for the
\* step of every non-fatal failure caught in the run (version lookup,
\* cost_entries insert, prompt_versions insert, spreadsheet flush), and a
\* run with no other failure returns "completed".
C25_NonFatalRecorded ==
  \A t \in Tasks :
    Returned(t) =>
      /\ \A kind \in NonFatalKinds \cap trace[t].failures :
           HasStep(result[t][1].steps, StepOfFailure(kind), "failed")
      /\ (trace[t].failures \subseteq NonFatalKinds) =>
           result[t][1].status = "completed"

\* C26: after a Log Costs step that completed, the summary block of the
\* spreadsheet holds the totals over all cost rows of the spreadsheet:
\* total cost, input tokens, output tokens and number of operations, the
\* rows of earlier runs included.
C26_RunningTotals ==
  \A t \in Tasks :
    (/\ pc[t] \in { "complete", "done" }
     /\ HasStep(local[t].steps, "Log Costs", "completed")) =>
      /\ sheet.summary # None
      /\ sheet.summary[1].totalCost = SumOver(sheet.costRows, "costUsd")
      /\ sheet.summary[1].totalInputTokens = SumOver(sheet.costRows, "inputTokens")
      /\ sheet.summary[1].totalOutputTokens = SumOver(sheet.costRows, "outputTokens")
      /\ sheet.summary[1].totalOperations = Len(sheet.costRows)

\* the prompt_versions rows a pipeline run inserted
VersionRowsOf(runId) ==
  { row \in Range(prompt_versions) : row.pipeline_run_id = runId }

\* C27: the prompt_versions row saved for a run has as total_iterations
\* the number of iteration records of the run's generated prompt.
C27_TotalIterations ==
  \A t \in Tasks :
    Generated(t) =>
      \A row \in VersionRowsOf(local[t].runId) :
        row.total_iterations =
          Len(local[t].generatedPrompt[1].simpleIterations)

\* the prompt that round i of the loop starts from
PromptOfRound(t, i) ==
  IF i = 1 THEN local[t].initialPrompt[1]
  ELSE local[t].generatedPrompt[1].simpleIterations[i - 1].promptSnapshot

\* C28: in round i of the loop the analyze call and the improve call are
\* given the prompt of round i - 1 (the initial generation for i = 1), the
\* improve call is given the feedback of the round's analyze call, the
\* round's record holds that feedback and the improved prompt, and the
\* content returned is the promptSnapshot of the last round.
C28_LoopDataFlow ==
  \A t \in Tasks :
    Generated(t) =>
      LET records == local[t].generatedPrompt[1].simpleIterations
          calls == trace[t].completions
      IN /\ Len(calls) = 1 + 2 * Len(records)
         /\ local[t].initialPrompt = Some(generatePromptFromBriefing)
         /\ \A i \in 1..Len(records) :
              LET prompt == PromptOfRound(t, i)
                  feedback == analyzePrompt(prompt)
              IN /\ calls[2 * i].operation = "prompt_analysis"
                 /\ calls[2 * i].promptContent = Some(prompt)
                 /\ calls[2 * i + 1].operation = "prompt_improvement"
                 /\ calls[2 * i + 1].promptContent = Some(prompt)
                 /\ calls[2 * i + 1].analysisFeedback = Some(feedback)
                 /\ records[i].feedback = feedback
                 /\ records[i].promptSnapshot = improvePrompt(prompt, feedback)
         /\ Len(records) > 0 =>
              local[t].generatedPrompt[1].content =
                records[Len(records)].promptSnapshot

\* a generation of two rounds: the second round improved the prompt that
\* the first round had produced
C28_Witness ==
  \E t \in Tasks :
    /\ Generated(t)
    /\ Len(local[t].generatedPrompt[1].simpleIterations) = 2
    /\ trace[t].completions[4].promptContent =
         Some(local[t].generatedPrompt[1].simpleIterations[1].promptSnapshot)
    /\ local[t].generatedPrompt[1].content # local[t].initialPrompt[1]

\* the calls that write to a cost sink
SinkCalls ==
  { "createSupabaseCostEntry", "createPromptVersion", "createCostSpreadsheet",
    "appendCostEntries", "appendVersionEntries", "updateSummary" }

\* C29: a run that failed on the account, on the API key or on a
\* completion call has made no cost-sink write: no cost_entries or
\* prompt_versions row and no spreadsheet row or summary is of that run;
\* the costs of its completion calls that had returned are the costEntries
\* of the failure result it returned.
C29_FatalWritesNothing ==
  \A t \in Tasks :
    (Returned(t) /\ { "account", "apiKey", "completion" } \cap trace[t].failures # {}) =>
      /\ Range(trace[t].log) \cap SinkCalls = {}
      /\ CostRowsOf(local[t].runId) = << >>
      /\ VersionRowsOf(local[t].runId) = {}
      /\ \A n \in 1..Len(sheet.costRows) : sheet.costRows[n].id[1] # local[t].runId
      /\ sheet.versionRows = << >> /\ sheet.summary = None
      /\ result[t][1].status = "failed"
      /\ LET costEntries == result[t][1].costEntries
             returned == { n \in 1..Len(trace[t].completions) :
                             trace[t].completions[n].ok }
         IN /\ { costEntries[n].id : n \in 1..Len(costEntries) } =
                 { << local[t].runId, n >> : n \in returned }
            /\ Len(costEntries) = Cardinality(returned)

\* the improve call threw in a run with a context: the costs of the
\* generate and analyze calls are in the failure result and in no sink
C29_Witness ==
  \E t \in Tasks :
    /\ Returned(t)
    /\ "completion" \in trace[t].failures
    /\ Ctx(t) # None
    /\ Len(result[t][1].costEntries) = 2
    /\ cost_entries = << >>
    /\ sheet = NoSheet

\* the rows of prompt_versions for an assistant and a version
RowsOfVersion(assistantId, version) ==
  { n \in 1..Len(prompt_versions) :
      /\ prompt_versions[n].assistant_id = assistantId
      /\ prompt_versions[n].version = version }

\* the run looked its version up in the store
Assigned(t) == "getNextVersionNumber" \in Range(trace[t].log)

\* C30: of two concurrent runs for the same assistant that were assigned
\* the same version, at most one has its row in prompt_versions; a run
\* without a row has Save Prompt Version recorded as failed and still
\* returns "completed" with an injection file of that version.
C30_DuplicateRejected ==
  \A t, u \in Tasks :
    (/\ t # u
     /\ Returned(t) /\ Returned(u)
     /\ Assigned(t) /\ Assigned(u)
     /\ local[t].assistantId = local[u].assistantId
     /\ local[t].version = local[u].version) =>
      /\ Cardinality(RowsOfVersion(local[t].assistantId, local[t].version)) <= 1
      /\ VersionRowsOf(local[t].runId) = {} \/ VersionRowsOf(local[u].runId) = {}
      /\ \A r \in { t, u } :
           VersionRowsOf(local[r].runId) = {} =>
             /\ HasStep(result[r][1].steps, "Save Prompt Version", "failed")
             /\ ~HasStep(result[r][1].steps, "Save Prompt Version", "completed")
             /\ result[r][1].status = "completed"
             /\ result[r][1].injectionFile # None
             /\ result[r][1].injectionFile[1].version = local[r].version

\* both runs were assigned v3: one saved its row, the other's insert was
\* rejected and it returned "completed" with a v3 injection file
C30_Witness ==
  \E t, u \in Tasks :
    /\ t # u
    /\ Returned(t) /\ Returned(u)
    /\ Assigned(t) /\ Assigned(u)
    /\ local[t].version = << "v", "3" >> /\ local[u].version = << "v", "3" >>
    /\ VersionRowsOf(local[t].runId) # {}
    /\ VersionRowsOf(local[u].runId) = {}
    /\ HasStep(result[u][1].steps, "Save Prompt Version", "failed")
    /\ result[u][1].status = "completed"
    /\ result[u][1].injectionFile[1].version = << "v", "3" >>

====
